---- MODULE Spec2Model ----
(***************************************************************************)
(* Model of ngraph's max-pooling operator node, src/ngraph/ops/max_pool.cpp *)
(* (op::MaxPool): the two constructors with their shape validation and     *)
(* output-shape inference, is_functionally_identical, generate_adjoints.   *)
(***************************************************************************)
EXTENDS Integers, Sequences, FiniteSets, TLC

VARIABLES pc, self, call, ret, made, adjoints

vars == <<pc, self, call, ret, made, adjoints>>

(***************************************************************************)
(* Bounds of the model.                                                    *)
(***************************************************************************)
\* largest rank of an input shape (rank 4 = batch, channel, two image axes)
MaxRank == 4
\* largest image dimension and largest window dimension
MaxDim == 2
\* largest window movement stride
MaxStride == 2
\* largest batch size and channel count
MaxBatch == 2

ETypes == {"f32", "i32"}

Max(a, b) == IF a >= b THEN a ELSE b

SeqsUpTo(S, n) == UNION {[1..k -> S] : k \in 0..n}

\* shapes: axis 0 batch, axis 1 channel, axes 2.. image dimensions
Shapes ==
    {sh \in SeqsUpTo(0..Max(MaxBatch, MaxDim), MaxRank) :
        \A i \in 1..Len(sh) : sh[i] <= (IF i <= 2 THEN MaxBatch ELSE MaxDim)}

WindowShapes == SeqsUpTo(0..MaxDim, MaxRank - 2)

StrideSeqs == SeqsUpTo(0..MaxStride, MaxRank - 2)

(***************************************************************************)
(* Graph nodes.  An argument node is a producer with n_outputs outputs;    *)
(* shape and etype are those of its output 0.  id is the node's identity   *)
(* (its address): two distinct producers may have equal shapes.            *)
(***************************************************************************)
NoNode == [kind |-> "None"]

ArgNode(id, n, et, sh) ==
    [kind |-> "Parameter", id |-> id, n_outputs |-> n, etype |-> et, shape |-> sh]

\* producers with one output, and producers with two outputs
ArgNodes ==
    {ArgNode(1, 1, et, sh) : et \in ETypes, sh \in Shapes}
        \cup {ArgNode(1, 2, et, sh) : et \in ETypes,
                                      sh \in {s \in Shapes : \A i \in 1..Len(s) : s[i] = 1}}

(***************************************************************************)
(* The messages of the ngraph_error exceptions.                            *)
(***************************************************************************)
ErrRank == "Max pool image batch input must have rank of at least 3 (one batch axis, one channel axis, at least one image dimension)."
ErrBatch == "Max pool image batch size is zero."
ErrChannel == "Max pool requires at least one image depth channel."
ErrWindowRank == "Max pool window shape rank does not match number of image dimensions."
ErrStrideRank == "Max pool window movement stride rank does not match number of image dimensions."
ErrImageZero == "Max pool input image dimension is zero."
ErrWindowZero == "Max pool window shape has a zero-length axis."
ErrWindowLarge == "Max pool window shape is larger than the image."
ErrStrideZero == "Max pool window axis movement stride is zero."
ErrOutputs == "Max pool image batch argument must have exactly one output"
ErrTensorViews == "Arguments must be tensor views"
ErrOutOfRange == "std::out_of_range"

\* ngraph::ceil_div of ngraph/util.hpp (defined outside this file): integer
\* ceiling division, floor((x + y - 1) / y) for positive x, y
ceil_div(x, y) == (x + y - 1) \div y

\* the base-class constructor RequiresTensorViewArgs("MaxPool", {arg}) (defined
\* outside this file): every argument must be a tensor view, i.e. a producer
\* with a single output.  Its error is not one of this file's messages.
RequiresTensorViewArgs(arg) == IF arg.n_outputs /= 1 THEN ErrTensorViews ELSE ""

(***************************************************************************)
(* op::MaxPool::MaxPool(arg, window_shape, window_movement_strides)        *)
(***************************************************************************)
Fail(msg) == [error |-> msg, node |-> NoNode]

\* mutant: the rank check lets rank 2 through
RankTooSmall_Two(arg_shape) == Len(arg_shape) < 2

\* if (arg_shape.size() < 3)
RankTooSmall(arg_shape) == Len(arg_shape) < 3

\* m_input_image_shape.push_back(arg_shape[1 + 1 + i]), i = 0 .. count-1
InputImageShape(arg_shape) == [i \in 1..(Len(arg_shape) - 2) |-> arg_shape[2 + i]]

\* the loop of lines 76-84: some image dimension is zero
ImageHasZero(in, n) == \E i \in 1..n : in[i] = 0

\* mutant: the zero-length window check is missing
WindowHasZero_Never(w, n) == FALSE

\* the loop of lines 89-95: some window dimension is zero
WindowHasZero(w, n) == \E i \in 1..n : w[i] = 0

\* mutant: only the first axis of the window is checked against the image
WindowTooLarge_FirstAxis(w, in, n) == n >= 1 /\ w[1] > in[1]

\* the loop of lines 100-106: some window dimension exceeds the image's
WindowTooLarge(w, in, n) == \E i \in 1..n : w[i] > in[i]

\* the check of the loop of lines 111-119: some stride is zero
StrideHasZero(s, n) == \E i \in 1..n : s[i] = 0

\* mutant: the + 1 of the number of window positions is missing
OutputDim_NoPlusOne(in_i, w_i, s_i) == ceil_div(in_i - w_i, s_i)

\* ceil_div(m_input_image_shape[i] - m_window_shape[i] + 1, m_window_movement_strides[i])
\* (size_t arithmetic; the difference cannot wrap, the window fits the image here)
OutputDim(in_i, w_i, s_i) == ceil_div(in_i - w_i + 1, s_i)

\* mutant: one loop running the four checks axis by axis
ValidateAxes_PerAxis(in, w, s, n) ==
    LET bad == {i \in 1..n : in[i] = 0 \/ w[i] = 0 \/ w[i] > in[i] \/ s[i] = 0} IN
    IF bad = {} THEN ""
    ELSE LET i == CHOOSE j \in bad : \A k \in bad : j <= k IN
         IF in[i] = 0 THEN ErrImageZero
         ELSE IF w[i] = 0 THEN ErrWindowZero
         ELSE IF w[i] > in[i] THEN ErrWindowLarge
         ELSE ErrStrideZero

\* the four per-axis loops, each run over all axes before the next starts;
\* "" when every check passes
ValidateAxes(in, w, s, n) ==
    IF ImageHasZero(in, n) THEN ErrImageZero
    ELSE IF WindowHasZero(w, n) THEN ErrWindowZero
    ELSE IF WindowTooLarge(w, in, n) THEN ErrWindowLarge
    ELSE IF StrideHasZero(s, n) THEN ErrStrideZero
    ELSE ""

\* Shape result_shape(1 + 1 + count); [0] = batch, [1] = channels, then Do
ResultShape(batch, channels, out) == <<batch, channels>> \o out

MaxPool3(arg, window_shape, window_movement_strides) ==
    IF RequiresTensorViewArgs(arg) /= "" THEN Fail(RequiresTensorViewArgs(arg))
    ELSE LET arg_shape == arg.shape IN
    IF RankTooSmall(arg_shape) THEN Fail(ErrRank)
    ELSE IF arg_shape[1] = 0 THEN Fail(ErrBatch)
    ELSE IF arg_shape[2] = 0 THEN Fail(ErrChannel)
    ELSE LET n == Len(arg_shape) - 2 IN
    IF Len(window_shape) /= n THEN Fail(ErrWindowRank)
    ELSE IF Len(window_movement_strides) /= n THEN Fail(ErrStrideRank)
    ELSE LET in == InputImageShape(arg_shape)
             e == ValidateAxes(in, window_shape, window_movement_strides, n) IN
    IF e /= "" THEN Fail(e)
    ELSE LET out == [i \in 1..n |->
                        OutputDim(in[i], window_shape[i], window_movement_strides[i])] IN
         [error |-> "",
          node |-> [kind |-> "MaxPool",
                    arg |-> arg,
                    m_window_shape |-> window_shape,
                    m_window_movement_strides |-> window_movement_strides,
                    m_batch_size |-> arg_shape[1],
                    m_channel_count |-> arg_shape[2],
                    m_image_dimension_count |-> n,
                    m_input_image_shape |-> in,
                    m_output_image_shape |-> out,
                    value_type |-> [etype |-> arg.etype,
                                    shape |-> ResultShape(arg_shape[1], arg_shape[2], out)]]]

(***************************************************************************)
(* static Strides default_strides(arg) and MaxPool(arg, window_shape)      *)
(***************************************************************************)
\* Strides(arg_shape.size() - 2, 1)
Ones(n) == [i \in 1..n |-> 1]

\* mutant: one stride too many (size() - 1 instead of size() - 2)
default_strides_OffByOne(arg) ==
    IF arg.n_outputs /= 1 THEN [error |-> ErrOutputs, strides |-> <<>>]
    ELSE IF Len(arg.shape) < 3 THEN [error |-> ErrRank, strides |-> <<>>]
    ELSE [error |-> "", strides |-> Ones(Len(arg.shape) - 1)]

default_strides(arg) ==
    IF arg.n_outputs /= 1 THEN [error |-> ErrOutputs, strides |-> <<>>]
    ELSE IF Len(arg.shape) < 3 THEN [error |-> ErrRank, strides |-> <<>>]
    ELSE [error |-> "", strides |-> Ones(Len(arg.shape) - 2)]

MaxPool2(arg, window_shape) ==
    LET d == default_strides(arg) IN
    IF d.error /= "" THEN Fail(d.error)
    ELSE MaxPool3(arg, window_shape, d.strides)

(***************************************************************************)
(* The state machine.                                                      *)
(***************************************************************************)
NoCall == [op |-> "none"]
NoRet == [error |-> ""]

Init ==
    /\ pc = "start"
    /\ self = NoNode
    /\ call = NoCall
    /\ ret = NoRet
    /\ made = NoNode
    /\ adjoints = <<>>

\* The inputs enumerated.  Full: the ranks fit, there are at most two image
\* axes, and every entry ranges over all its values.  Small: the image,
\* window and stride entries are at most 1 and the ranks, the batch size and
\* the channel count are arbitrary.
FullCase(a, w) ==
    /\ a.n_outputs = 1
    /\ Len(a.shape) \in {3, 4}
    /\ Len(w) = Len(a.shape) - 2

SmallCase(a, w) ==
    /\ \A i \in 3..Len(a.shape) : a.shape[i] <= 1
    /\ \A i \in 1..Len(w) : w[i] <= 1

InputCase(a, w, s) ==
    \/ FullCase(a, w) /\ Len(s) = Len(a.shape) - 2
    \/ SmallCase(a, w) /\ \A i \in 1..Len(s) : s[i] <= 1

Construct3 ==
    /\ pc = "start"
    /\ \E a \in ArgNodes, w \in WindowShapes :
          /\ FullCase(a, w) \/ SmallCase(a, w)
          /\ \E s \in StrideSeqs :
                /\ InputCase(a, w, s)
                /\ LET r == MaxPool3(a, w, s) IN
                      /\ call' = [op |-> "MaxPool3", arg |-> a, window_shape |-> w,
                                  window_movement_strides |-> s]
                      /\ ret' = [error |-> r.error]
                      /\ self' = r.node
                      /\ pc' = IF r.error = "" THEN "built" ELSE "failed"
    /\ UNCHANGED <<made, adjoints>>

Construct2 ==
    /\ pc = "start"
    /\ \E a \in ArgNodes, w \in WindowShapes :
          /\ FullCase(a, w) \/ SmallCase(a, w)
          /\ LET r == MaxPool2(a, w) IN
                /\ call' = [op |-> "MaxPool2", arg |-> a, window_shape |-> w]
                /\ ret' = [error |-> r.error]
                /\ self' = r.node
                /\ pc' = IF r.error = "" THEN "built" ELSE "failed"
    /\ UNCHANGED <<made, adjoints>>

(***************************************************************************)
(* bool op::MaxPool::is_functionally_identical(const Node& other) const    *)
(***************************************************************************)
\* Node::test_identical: same operator kind and the same input nodes
test_identical(n, other) ==
    /\ n.kind = other.kind
    /\ n.kind = "MaxPool" => n.arg.id = other.arg.id

\* mutant: the comparison of the strides is missing
is_functionally_identical_NoStrides(n, other) ==
    IF test_identical(n, other)
    THEN /\ n.m_window_shape = other.m_window_shape
         /\ n.m_channel_count = other.m_channel_count
         /\ n.m_input_image_shape = other.m_input_image_shape
         /\ n.m_output_image_shape = other.m_output_image_shape
         /\ n.m_batch_size = other.m_batch_size
         /\ n.m_image_dimension_count = other.m_image_dimension_count
    ELSE FALSE

is_functionally_identical(n, other) ==
    IF test_identical(n, other)
    THEN /\ n.m_window_shape = other.m_window_shape
         /\ n.m_window_movement_strides = other.m_window_movement_strides
         /\ n.m_channel_count = other.m_channel_count
         /\ n.m_input_image_shape = other.m_input_image_shape
         /\ n.m_output_image_shape = other.m_output_image_shape
         /\ n.m_batch_size = other.m_batch_size
         /\ n.m_image_dimension_count = other.m_image_dimension_count
    ELSE FALSE

\* a sequence and its variants that differ from it in exactly one entry
Variants(v, D) == {v} \cup {[v EXCEPT ![i] = x] : i \in 1..Len(v), x \in D}

\* The other nodes a node is compared with: pooling nodes built over the same
\* producer or over a second producer (id 2) of the same element type, from
\* inputs that differ from the node's own in at most one entry; and the
\* producer itself, a node of another kind.
OtherInputs(n) ==
    LET a == n.arg
        w == n.m_window_shape
        s == n.m_window_movement_strides
    IN  {<<a, w2, s>> : w2 \in Variants(w, 0..MaxDim)}
            \cup {<<a, w, s2>> : s2 \in Variants(s, 0..MaxStride)}
            \cup {<<ArgNode(2, 1, a.etype, sh), w, s>> :
                     sh \in Variants(a.shape, 0..Max(MaxBatch, MaxDim)) \cap Shapes}

OtherNodes(n) ==
    {n.arg} \cup {MaxPool3(t[1], t[2], t[3]).node :
                     t \in {u \in OtherInputs(n) : MaxPool3(u[1], u[2], u[3]).error = ""}}

IsFunctionallyIdentical ==
    /\ pc = "built"
    /\ \E other \in OtherNodes(self) :
          /\ call' = [op |-> "is_functionally_identical", other |-> other]
          /\ ret' = [error |-> "", rc |-> is_functionally_identical(self, other)]
    /\ pc' = "compared"
    /\ UNCHANGED <<self, made, adjoints>>

(***************************************************************************)
(* void op::MaxPool::generate_adjoints(adjoints, delta)                    *)
(***************************************************************************)
\* constructors of the collaborating graph nodes
Parameter(et, sh) == [kind |-> "Parameter", etype |-> et, shape |-> sh]
Greater(a, b) == [kind |-> "Greater", args |-> <<a, b>>]
Add(a, b) == [kind |-> "Add", args |-> <<a, b>>]
Function(body, params) == [kind |-> "Function", body |-> body, parameters |-> params]
Constant(et, sh, values) ==
    [kind |-> "Constant", etype |-> et, shape |-> sh, values |-> values]
SelectAndScatter(operand, source, init, select, scatter, window_shape, window_strides) ==
    [kind |-> "SelectAndScatter", arg_selectee |-> operand, arg_source |-> source,
     arg_init |-> init, select_function |-> select, scatter_function |-> scatter,
     window_shape |-> window_shape, window_movement_strides |-> window_strides]

\* Adjoints::add_delta(x, delta): one more contribution for node x
add_delta(adj, x, delta) == Append(adj, [node |-> x, delta |-> delta])

\* mutant: the element type is taken from the pooling node
AdjointEType_Node(n, delta) == n.value_type.etype

\* auto etype = delta->get_element_type();
AdjointEType(n, delta) == delta.etype

\* mutant: every entry is appended, no fixed index is read
PrefixTwo_AllAxes(v) == [error |-> "", value |-> <<1, 1>> \o v]

\* Strides strides{1, 1}; push_back(v.at(0)); push_back(v.at(1));
\* (and the same for Shape shape): std::vector::at throws std::out_of_range
PrefixTwo(v) ==
    IF Len(v) < 1 THEN [error |-> ErrOutOfRange, value |-> <<1, 1>>]
    ELSE IF Len(v) < 2 THEN [error |-> ErrOutOfRange, value |-> <<1, 1, v[1]>>]
    ELSE [error |-> "", value |-> <<1, 1, v[1], v[2]>>]

generate_adjoints(n, adj, delta) ==
    LET etype == AdjointEType(n, delta)
        SEL_A == Parameter(etype, <<>>)
        SEL_B == Parameter(etype, <<>>)
        sel_f == Function(Greater(SEL_A, SEL_B), <<SEL_A, SEL_B>>)
        SCATTER_A == Parameter(etype, <<>>)
        SCATTER_B == Parameter(etype, <<>>)
        scatter_f == Function(Add(SCATTER_A, SCATTER_B), <<SCATTER_A, SCATTER_B>>)
        operand == n.arg
        init_value == Constant(etype, <<>>, <<"0">>)
        strides == PrefixTwo(n.m_window_movement_strides)
        shape == PrefixTwo(n.m_window_shape)
        built == [kind |-> "Built", sel_f |-> sel_f, scatter_f |-> scatter_f,
                  init_value |-> init_value]
    IN  IF strides.error /= "" THEN [error |-> strides.error, made |-> built, adjoints |-> adj]
        ELSE IF shape.error /= "" THEN [error |-> shape.error, made |-> built, adjoints |-> adj]
        ELSE LET sas == SelectAndScatter(operand, delta, init_value, sel_f, scatter_f,
                                         shape.value, strides.value)
             IN  [error |-> "", made |-> built, adjoints |-> add_delta(adj, operand, sas)]

\* the upstream gradient handed in: a node of the shape of this node's output
Deltas(n) == {[kind |-> "Delta", etype |-> et, shape |-> n.value_type.shape] : et \in ETypes}

GenerateAdjoints ==
    /\ pc = "built"
    /\ \E delta \in Deltas(self) :
          LET r == generate_adjoints(self, adjoints, delta) IN
             /\ call' = [op |-> "generate_adjoints", delta |-> delta]
             /\ ret' = [error |-> r.error]
             /\ made' = r.made
             /\ adjoints' = r.adjoints
    /\ pc' = "done"
    /\ UNCHANGED self

Next == Construct2 \/ Construct3 \/ IsFunctionallyIdentical \/ GenerateAdjoints

Spec == Init /\ [][Next]_vars

(***************************************************************************)
(* The inputs of the last constructor call.                                *)
(***************************************************************************)
IsCtor == call.op \in {"MaxPool3", "MaxPool2"}

CShape == call.arg.shape

\* number of image dimensions of the input (0 below rank 3)
CAxes == IF Len(CShape) >= 3 THEN Len(CShape) - 2 ELSE 0

CWindow == call.window_shape

\* the strides the call pools with: the ones given, or one per image axis
CStrides ==
    IF call.op = "MaxPool3" THEN call.window_movement_strides ELSE [i \in 1..CAxes |-> 1]

\* the parameters are valid: rank >= 3, fitting ranks, all entries positive,
\* every window dimension within the image
ValidCall ==
    /\ call.arg.n_outputs = 1
    /\ Len(CShape) >= 3
    /\ \A i \in 1..Len(CShape) : CShape[i] > 0
    /\ Len(CWindow) = CAxes /\ Len(CStrides) = CAxes
    /\ \A i \in 1..CAxes : CWindow[i] > 0 /\ CStrides[i] > 0 /\ CWindow[i] <= CShape[2 + i]

\* q is the ceiling of n / d
IsCeiling(q, n, d) == q * d >= n /\ (q - 1) * d < n

\* C1: for valid parameters the construction succeeds and records the result
\* shape [batch, channels] ++ output image shape, whose entry i is
\* ceil((input_dim[i] - window_dim[i] + 1) / stride[i]); the rank is preserved.
C1_ResultShape ==
    (IsCtor /\ ValidCall) =>
        /\ ret.error = ""
        /\ self.kind = "MaxPool"
        /\ Len(self.value_type.shape) = Len(CShape)
        /\ self.value_type.shape[1] = CShape[1]
        /\ self.value_type.shape[2] = CShape[2]
        /\ self.value_type.shape = <<CShape[1], CShape[2]>> \o self.m_output_image_shape
        /\ \A i \in 1..CAxes :
              IsCeiling(self.value_type.shape[2 + i],
                        CShape[2 + i] - CWindow[i] + 1, CStrides[i])

C1_Witness ==
    /\ call.op = "MaxPool3"
    /\ CShape = <<2, 1, 2, 2>>
    /\ CWindow = <<2, 1>>
    /\ CStrides = <<2, 1>>
    /\ ret.error = ""
    /\ self.value_type.shape = <<2, 1, 1, 2>>

\* The nine checks of the three-argument constructor, as conditions on its
\* parameters alone.
Violates(k) ==
    CASE k = 1 -> Len(CShape) < 3
      [] k = 2 -> Len(CShape) >= 1 /\ CShape[1] = 0
      [] k = 3 -> Len(CShape) >= 2 /\ CShape[2] = 0
      [] k = 4 -> Len(CWindow) /= Len(CShape) - 2
      [] k = 5 -> Len(CStrides) /= Len(CShape) - 2
      [] k = 6 -> \E i \in 3..Len(CShape) : CShape[i] = 0
      [] k = 7 -> \E i \in 1..Len(CWindow) : CWindow[i] = 0
      [] k = 8 -> \E i \in 1..Len(CWindow) : 2 + i <= Len(CShape) /\ CWindow[i] > CShape[2 + i]
      [] k = 9 -> \E i \in 1..Len(CStrides) : CStrides[i] = 0

CheckError(k) ==
    CASE k = 1 -> ErrRank
      [] k = 2 -> ErrBatch
      [] k = 3 -> ErrChannel
      [] k = 4 -> ErrWindowRank
      [] k = 5 -> ErrStrideRank
      [] k = 6 -> ErrImageZero
      [] k = 7 -> ErrWindowZero
      [] k = 8 -> ErrWindowLarge
      [] k = 9 -> ErrStrideZero

\* C2: the three-argument constructor raises the error of the first violated
\* check in the order 1..9, each per-axis group being completed over all axes
\* before the next group.
C2_FirstViolatedCheck ==
    (call.op = "MaxPool3" /\ call.arg.n_outputs = 1) =>
        \A k \in 1..9 :
            (Violates(k) /\ \A j \in 1..(k - 1) : ~Violates(j)) =>
                (ret.error = CheckError(k) /\ pc = "failed" /\ self = NoNode)

\* a zero stride on the first axis (check 9) and a zero window dimension on
\* the second axis (check 7): the window error is raised
C2_Witness ==
    /\ call.op = "MaxPool3"
    /\ CShape = <<1, 1, 2, 2>>
    /\ CWindow = <<1, 0>>
    /\ CStrides = <<0, 1>>
    /\ ret.error = ErrWindowZero

\* C3 as stated: an input of rank below 3 fails with the rank error, whatever
\* the other parameters and whichever constructor is used.
C3_RankErrorAnyNode ==
    (IsCtor /\ Len(CShape) < 3) =>
        (ret.error = ErrRank /\ pc = "failed" /\ self = NoNode)

\* C3 amended: an input with exactly one output and of rank below 3 fails
\* with the rank error, whatever the other parameters and whichever
\* constructor is used; on an input with another number of outputs the
\* default-stride constructor fails with the exactly-one-output error, which
\* default_strides raises before it looks at the rank.
C3_RankError ==
    /\ (IsCtor /\ call.arg.n_outputs = 1 /\ Len(CShape) < 3) =>
          (ret.error = ErrRank /\ pc = "failed" /\ self = NoNode)
    /\ (call.op = "MaxPool2" /\ call.arg.n_outputs /= 1) =>
          (ret.error = ErrOutputs /\ pc = "failed" /\ self = NoNode)

C3_Witness ==
    /\ call.op = "MaxPool2"
    /\ call.arg.n_outputs = 1
    /\ CShape = <<1, 1>>
    /\ CWindow = <<>>
    /\ ret.error = ErrRank

Zeros(v) == Cardinality({i \in 1..Len(v) : v[i] = 0})

\* exactly one entry of the parameters is zero and they are valid otherwise
OneZeroCall ==
    /\ call.arg.n_outputs = 1
    /\ Len(CShape) >= 3
    /\ Len(CWindow) = CAxes /\ Len(CStrides) = CAxes
    /\ Zeros(CShape) + Zeros(CWindow) + Zeros(CStrides) = 1
    /\ \A i \in 1..CAxes :
          (CWindow[i] /= 0 /\ CShape[2 + i] /= 0) => CWindow[i] <= CShape[2 + i]

\* C4: any zero batch size, channel count, image dimension, window dimension or
\* stride makes the construction fail; a single zero among otherwise valid
\* parameters raises the error of that value.
C4_ZeroValues ==
    IsCtor =>
        /\ (Zeros(CShape) + Zeros(CWindow) + Zeros(CStrides) > 0) =>
              (ret.error /= "" /\ pc = "failed" /\ self = NoNode)
        /\ OneZeroCall =>
              /\ CShape[1] = 0 => ret.error = ErrBatch
              /\ CShape[2] = 0 => ret.error = ErrChannel
              /\ (\E i \in 1..CAxes : CShape[2 + i] = 0) => ret.error = ErrImageZero
              /\ Zeros(CWindow) = 1 => ret.error = ErrWindowZero
              /\ Zeros(CStrides) = 1 => ret.error = ErrStrideZero

C4_Witness ==
    /\ call.op = "MaxPool3"
    /\ CShape = <<1, 1, 2, 2>>
    /\ CWindow = <<1, 2>>
    /\ CStrides = <<1, 0>>
    /\ ret.error = ErrStrideZero

\* some window dimension exceeds the image dimension of its axis
WindowExceeds ==
    \E i \in 1..Len(CWindow) : 2 + i <= Len(CShape) /\ CWindow[i] > CShape[2 + i]

\* the parameters are valid except that the window exceeds the image
OnlyWindowExceeds ==
    /\ call.arg.n_outputs = 1
    /\ Len(CShape) >= 3
    /\ \A i \in 1..Len(CShape) : CShape[i] > 0
    /\ Len(CWindow) = CAxes /\ Len(CStrides) = CAxes
    /\ \A i \in 1..CAxes : CWindow[i] > 0 /\ CStrides[i] > 0
    /\ WindowExceeds

\* C5: a window dimension larger than the image dimension of its axis makes
\* the construction fail, and with the window-too-large error when nothing
\* else is violated.
C5_WindowTooLarge ==
    IsCtor =>
        /\ WindowExceeds => (ret.error /= "" /\ pc = "failed" /\ self = NoNode)
        /\ OnlyWindowExceeds => ret.error = ErrWindowLarge

C5_Witness ==
    /\ call.op = "MaxPool3"
    /\ CShape = <<1, 1, 2, 1>>
    /\ CWindow = <<1, 2>>
    /\ CStrides = <<1, 1>>
    /\ ret.error = ErrWindowLarge

\* the outcome of the three-argument constructor on the input of the last
\* call with a stride of 1 on every image axis
ExplicitOnes == MaxPool3(call.arg, call.window_shape, [i \in 1..CAxes |-> 1])

\* C6 as stated: for every input node the default-stride constructor has the
\* outcome of the three-argument constructor with (rank - 2) strides of 1.
C6_DefaultStridesAnyNode ==
    call.op = "MaxPool2" => (ret.error = ExplicitOnes.error /\ self = ExplicitOnes.node)

\* C6 amended: the same, for every input node that has exactly one output.
C6_DefaultStrides ==
    (call.op = "MaxPool2" /\ call.arg.n_outputs = 1) =>
        (ret.error = ExplicitOnes.error /\ self = ExplicitOnes.node)

C6_Witness ==
    /\ call.op = "MaxPool2"
    /\ call.arg.n_outputs = 1
    /\ CShape = <<2, 1, 2, 2>>
    /\ CWindow = <<2, 1>>
    /\ ret.error = ""
    /\ self.m_window_movement_strides = <<1, 1>>
    /\ self.value_type.shape = <<2, 1, 1, 2>>

MaxPoolFields ==
    {"m_window_shape", "m_window_movement_strides", "m_channel_count",
     "m_input_image_shape", "m_output_image_shape", "m_batch_size",
     "m_image_dimension_count"}

\* the fields of the comparison on which two pooling nodes differ
DifferingFields(n, other) == {f \in MaxPoolFields : n[f] /= other[f]}

\* C7: is_functionally_identical is true exactly when the node-level identity
\* check passes and the seven fields are equal; a node is identical to itself;
\* one differing field makes it false; it changes no field of a node.
C7_FunctionallyIdentical ==
    /\ [](call.op = "is_functionally_identical" =>
            /\ ret.rc = (/\ test_identical(self, call.other)
                         /\ DifferingFields(self, call.other) = {})
            /\ call.other = self => ret.rc = TRUE
            /\ (call.other.kind = "MaxPool" /\ DifferingFields(self, call.other) /= {})
                  => ret.rc = FALSE)
    /\ [][call'.op = "is_functionally_identical" => self' = self]_vars

\* the strides alone differ, the output image shapes are equal: not identical
C7_Witness ==
    /\ call.op = "is_functionally_identical"
    /\ call.other.kind = "MaxPool"
    /\ call.other.arg = self.arg
    /\ DifferingFields(self, call.other) = {"m_window_movement_strides"}
    /\ ret.rc = FALSE

\* C8: generate_adjoints registers exactly one contribution, for the input
\* operand: a select-and-scatter node over (operand, delta) with window shape
\* [1, 1] ++ window_shape and strides [1, 1] ++ window_movement_strides, of
\* the operand's rank.
C8_AdjointContribution ==
    call.op = "generate_adjoints" =>
        /\ ret.error = ""
        /\ Len(adjoints) = 1
        /\ adjoints[1].node = self.arg
        /\ adjoints[1].delta.kind = "SelectAndScatter"
        /\ adjoints[1].delta.arg_selectee = self.arg
        /\ adjoints[1].delta.arg_source = call.delta
        /\ adjoints[1].delta.window_shape = <<1, 1>> \o self.m_window_shape
        /\ adjoints[1].delta.window_movement_strides
              = <<1, 1>> \o self.m_window_movement_strides
        /\ Len(adjoints[1].delta.window_shape) = Len(self.arg.shape)

\* the element types of the zero constant and of the parameters of the select
\* and scatter functions built by generate_adjoints
BuiltETypes ==
    {made.init_value.etype}
        \cup {made.sel_f.parameters[i].etype : i \in 1..2}
        \cup {made.scatter_f.parameters[i].etype : i \in 1..2}

\* C9 as stated: the constant and the scalar parameters have the element type
\* of the pooling node, for every delta.
C9_NodeEType ==
    call.op = "generate_adjoints" => BuiltETypes = {self.value_type.etype}

\* C9 amended: they have the element type of the delta passed in (which is
\* the node's own element type when delta has the node's element type).
C9_DeltaEType ==
    call.op = "generate_adjoints" =>
        /\ BuiltETypes = {call.delta.etype}
        /\ made.init_value.shape = <<>> /\ made.init_value.values = <<"0">>
        /\ made.sel_f.body.kind = "Greater" /\ made.scatter_f.body.kind = "Add"
        /\ call.delta.etype = self.value_type.etype
              => BuiltETypes = {self.value_type.etype}

C9_Witness ==
    /\ call.op = "generate_adjoints"
    /\ call.delta.etype = "i32"
    /\ self.value_type.etype = "f32"
    /\ self.arg.etype = "f32"
    /\ made.init_value.etype = "i32"

\* C10: on a node with one image axis generate_adjoints fails with an
\* out-of-range error and leaves the accumulator as it was.
C10_OneAxisOutOfRange ==
    [][(call'.op = "generate_adjoints" /\ pc = "built" /\ Len(self.m_window_shape) < 2) =>
          (ret'.error = ErrOutOfRange /\ adjoints' = adjoints)]_vars

C10_Witness ==
    /\ call.op = "generate_adjoints"
    /\ Len(self.m_window_shape) = 1
    /\ Len(self.m_window_movement_strides) = 1
    /\ ret.error = ErrOutOfRange
    /\ adjoints = <<>>
====
